---- MODULE Spec2Model ----
(***************************************************************************)
(* Sentiment scoring and weighted composite aggregation of the Sentiment   *)
(* repository: SentimentAnalyzer (src/src/analysis/sentiment_analyzer.py), *)
(* SentimentVisualizer._classify_sentiment and MarketIndicators            *)
(* (src/src/data_sources/market_indicators.py).                            *)
(*                                                                         *)
(* Numbers.  Every float of the program is modelled as an exact integer    *)
(* count of millionths (Unit = 1.0).  The value grids below are chosen so  *)
(* that every product and quotient the code takes is exact on them.        *)
(* Text is a sequence of one-character strings.                            *)
(***************************************************************************)
EXTENDS Integers, Sequences, FiniteSets, TLC

VARIABLES
    a_pc,           \* analyze: "start" | "returned" | "raised"
    text,           \* analyze: the caller's text
    tb_outcome,     \* analyze: what TextBlob(text).sentiment did in this call
    vader_outcome,  \* analyze: what vader.polarity_scores(text) did in this call
    invoked,        \* analyze: the lexical models invoked in this call
    result,         \* analyze: the returned dict, or NoValue
    c_pc,           \* classifier: "idle" | "ready"
    score,          \* classifier: the score to label
    label,          \* classifier: SentimentAnalyzer.classify_sentiment(score), or NoLabel
    vis_label,      \* classifier: SentimentVisualizer._classify_sentiment(score), or NoLabel
    m_pc,           \* market: "idle" | "start" | "returned"
    vix,            \* market: the dict get_vix() returned
    ad_line,        \* market: the dict get_advance_decline_line() returned
    pc_ratio,       \* market: the dict get_put_call_ratio_estimate("SPY") returned
    breadth,        \* market: the dict get_market_breadth_spy() returned
    market,         \* market: the dict get_overall_market_sentiment() returned
    b_pc,           \* batch: "idle" | "start" | "returned" | "raised"
    b_op,           \* batch: the method called, "analyze_batch" | "get_overall_sentiment"
    texts,          \* batch: the caller's list of texts
    readings,       \* batch: what the two libraries do with texts[i] when called
    scored,         \* batch: how many of the texts analyze was called with
    results,        \* batch: the list analyze_batch returned, or NoValue
    summary,        \* batch: the dict get_overall_sentiment returned, or NoValue
    f_pc,           \* fmp: "idle" | "start" | "returned"
    f_op,           \* fmp: the method called
    holders,        \* fmp: the list get_institutional_holders(ticker) returned
    trades,         \* fmp: the list get_insider_trades(ticker) returned
    days,           \* fmp: the days argument of analyze_insider_sentiment
    time_of_day,    \* fmp: datetime.now() in half days after today's midnight
    fmp_result,     \* fmp: the dict the method returned, or NoValue
    k_pc,           \* clean_text: "idle" | "start" | "cleaned" | "recleaned"
    raw_text,       \* clean_text: the caller's text
    cleaned,        \* clean_text: clean_text(raw_text)
    recleaned,      \* clean_text: clean_text(cleaned)
    d_op,           \* database: the last method called, or "none"
    db_calls,       \* database: how many calls were made
    tweets,         \* database: the rows of the tweets table, in rowid order
    added,          \* database: how many rows the last call added
    inserted,       \* database: what insert_tweet returned
    inserted_count, \* database: what insert_tweets_batch returned
    asked,          \* database: the ticker get_sentiment_summary was asked for
    db_summary,     \* database: what get_sentiment_summary returned
    l_pc,           \* limiter: "idle" or "ready"
    collector,      \* limiter: the class of the collector
    min_request_interval,
    last_request_time,
    clock,          \* limiter: time.time()
    request_times,  \* limiter: when each request was issued
    slept,          \* limiter: how long the last call's limiter slept
    returned        \* limiter: what the last call returned

analyzerVars == <<a_pc, text, tb_outcome, vader_outcome, invoked, result>>
classifierVars == <<c_pc, score, label, vis_label>>
marketVars == <<m_pc, vix, ad_line, pc_ratio, breadth, market>>
batchVars == <<b_pc, b_op, texts, readings, scored, results, summary>>
fmpVars == <<f_pc, f_op, holders, trades, days, time_of_day, fmp_result>>
cleanVars == <<k_pc, raw_text, cleaned, recleaned>>
dbVars ==
    <<d_op, db_calls, tweets, added, inserted, inserted_count, asked, db_summary>>

limiterVars ==
    <<l_pc, collector, min_request_interval, last_request_time, clock,
      request_times, slept, returned>>
vars ==
    <<analyzerVars, classifierVars, marketVars, batchVars, fmpVars, cleanVars,
      dbVars, limiterVars>>

\* what each component's actions leave alone
notAnalyzer ==
    <<classifierVars, marketVars, batchVars, fmpVars,
      cleanVars, dbVars, limiterVars>>
notClassifier ==
    <<analyzerVars, marketVars, batchVars, fmpVars,
      cleanVars, dbVars, limiterVars>>
notMarket ==
    <<analyzerVars, classifierVars, batchVars, fmpVars,
      cleanVars, dbVars, limiterVars>>
notBatch ==
    <<analyzerVars, classifierVars, marketVars, fmpVars,
      cleanVars, dbVars, limiterVars>>
notFmp ==
    <<analyzerVars, classifierVars, marketVars, batchVars,
      cleanVars, dbVars, limiterVars>>
notClean ==
    <<analyzerVars, classifierVars, marketVars, batchVars,
      fmpVars, dbVars, limiterVars>>
notDb ==
    <<analyzerVars, classifierVars, marketVars, batchVars,
      fmpVars, cleanVars, limiterVars>>
notLimiter ==
    <<analyzerVars, classifierVars, marketVars, batchVars,
      fmpVars, cleanVars, dbVars>>

(***************************************************************************)
(* Scale and bounds                                                        *)
(***************************************************************************)
Unit == 10 ^ 6
Half == Unit \div 2

\* Lexical-model outputs range over k * 0.5 for |k| <= MaxGrid, so the
\* values beyond +-1.0 are outputs outside the documented range.
MaxGrid == 3
\* Enumerated texts have at most MaxTextLen characters.
MaxTextLen == 2
\* Enumerated batches have at most MaxBatch texts.
MaxBatch == 3
\* Enumerated holder lists have at most MaxHolders holders.
MaxHolders == 3
\* Enumerated trade lists have at most MaxTrades trades.
MaxTrades == 2
\* Enumerated texts to clean have at most MaxCleanLen characters.
MaxCleanLen == 3
\* At most MaxDbCalls calls are made on the database.
MaxDbCalls == 3
\* insert_tweets_batch is given at most MaxInsertBatch tweets.
MaxInsertBatch == 2
\* One collector makes at most MaxRequests requests.
MaxRequests == 3

NoValue == [none |-> TRUE]
NoLabel == "(none)"
\* the empty dict {}
EmptyDict == <<>>

Abs(x) == IF x < 0 THEN -x ELSE x

(***************************************************************************)
(* clean_text                                                              *)
(***************************************************************************)
\* str.split() whitespace and the regex class \s
Whitespace == {" ", "\t", "\n"}
\* the regex class \w, restricted to the characters the model uses
WordChars == {"a", "h", "p", "s", "t", "w", "x", "1", "_"}

IsSpace(ch) == ch \in Whitespace
IsWord(ch) == ch \in WordChars

\* s[i..] starts with the literal lit
StartsWith(s, i, lit) ==
    /\ i + Len(lit) - 1 <= Len(s)
    /\ \A k \in 1..Len(lit) : s[i + k - 1] = lit[k]

\* first index >= i whose character satisfies the negation of the class
\* (Len(s) + 1 when the run reaches the end): the end of a greedy \S+ or \w+
RECURSIVE NonSpaceRunEnd(_, _)
NonSpaceRunEnd(s, i) ==
    IF i > Len(s) \/ IsSpace(s[i]) THEN i ELSE NonSpaceRunEnd(s, i + 1)

RECURSIVE WordRunEnd(_, _)
WordRunEnd(s, i) ==
    IF i > Len(s) \/ ~IsWord(s[i]) THEN i ELSE WordRunEnd(s, i + 1)

\* literal followed by \S+ matches at i
LitThenNonSpace(s, i, lit) ==
    /\ StartsWith(s, i, lit)
    /\ i + Len(lit) <= Len(s)
    /\ ~IsSpace(s[i + Len(lit)])

\* re.sub(r'http\S+|www\S+|https\S+', '', text): leftmost match, alternatives
\* in order, each \S+ greedy
RECURSIVE RemoveURLsFrom(_, _)
RemoveURLsFrom(s, i) ==
    IF i > Len(s) THEN <<>>
    ELSE IF LitThenNonSpace(s, i, <<"h", "t", "t", "p">>)
         THEN RemoveURLsFrom(s, NonSpaceRunEnd(s, i + 4))
    ELSE IF LitThenNonSpace(s, i, <<"w", "w", "w">>)
         THEN RemoveURLsFrom(s, NonSpaceRunEnd(s, i + 3))
    ELSE IF LitThenNonSpace(s, i, <<"h", "t", "t", "p", "s">>)
         THEN RemoveURLsFrom(s, NonSpaceRunEnd(s, i + 5))
    ELSE <<s[i]>> \o RemoveURLsFrom(s, i + 1)

RemoveURLs(s) == RemoveURLsFrom(s, 1)

\* re.sub(r'@\w+', '', text)
RECURSIVE RemoveMentionsFrom(_, _)
RemoveMentionsFrom(s, i) ==
    IF i > Len(s) THEN <<>>
    ELSE IF s[i] = "@" /\ i + 1 <= Len(s) /\ IsWord(s[i + 1])
         THEN RemoveMentionsFrom(s, WordRunEnd(s, i + 1))
    ELSE <<s[i]>> \o RemoveMentionsFrom(s, i + 1)

RemoveMentions(s) == RemoveMentionsFrom(s, 1)

\* re.sub(r'#', '', text)
RemoveHashes(s) == SelectSeq(s, LAMBDA ch : ch # "#")

\* ' '.join(text.split()): the words of s, single spaces between them
RECURSIVE JoinSplitFrom(_, _, _)
JoinSplitFrom(s, i, first) ==
    IF i > Len(s) THEN <<>>
    ELSE IF IsSpace(s[i]) THEN JoinSplitFrom(s, i + 1, first)
    ELSE LET e == NonSpaceRunEnd(s, i)
             word == SubSeq(s, i, e - 1)
         IN (IF first THEN word ELSE <<" ">> \o word)
                \o JoinSplitFrom(s, e, FALSE)

JoinSplit(s) == JoinSplitFrom(s, 1, TRUE)

\* str.strip()
RECURSIVE Strip(_)
Strip(s) ==
    IF s = <<>> THEN s
    ELSE IF IsSpace(s[1]) THEN Strip(Tail(s))
    ELSE IF IsSpace(s[Len(s)]) THEN Strip(SubSeq(s, 1, Len(s) - 1))
    ELSE s

clean_text(s) == Strip(JoinSplit(RemoveHashes(RemoveMentions(RemoveURLs(s)))))

(***************************************************************************)
(* The two lexical models: what a call to the library did                  *)
(***************************************************************************)
\* polarity / compound values the libraries are drawn from
GridValues == {k * Half : k \in -MaxGrid..MaxGrid}
\* subjectivity values the library is drawn from
SubjectivityValues == {k * Half : k \in -1..MaxGrid}

\* TextBlob(text).sentiment: raises, or yields (polarity, subjectivity)
TextBlobOutcomes ==
    {[raises |-> TRUE]}
    \cup {[raises |-> FALSE, polarity |-> p, subjectivity |-> s] :
            p \in GridValues, s \in SubjectivityValues}

\* (pos, neg, neu) proportions reported beside the compound value
VaderMixes == {<<Half, 0, Half>>, <<0, Half, Half>>}

\* the dict of vader.polarity_scores(text), which analyze_with_vader hands on
\* as it is: under the keys the method's docstring lists, or under the keys
\* vaderSentiment's SentimentIntensityAnalyzer gives it
DocumentedScores(c, m) ==
    [compound |-> c, positive |-> m[1], negative |-> m[2], neutral |-> m[3]]
LibraryScores(c, m) ==
    [compound |-> c, pos |-> m[1], neg |-> m[2], neu |-> m[3]]

VaderOutcomes ==
    {[raises |-> TRUE]}
    \cup {[raises |-> FALSE, scores |-> DocumentedScores(c, m)] :
            c \in GridValues, m \in VaderMixes}
    \cup {[raises |-> FALSE, scores |-> LibraryScores(c, m)] :
            c \in GridValues, m \in VaderMixes}

analyze_with_textblob(outcome) ==
    IF outcome.raises
    THEN [polarity |-> 0, subjectivity |-> 0]
    ELSE [polarity |-> outcome.polarity, subjectivity |-> outcome.subjectivity]

analyze_with_vader_library_fallback(outcome) ==
    IF outcome.raises
    THEN [compound |-> 0, pos |-> 0, neg |-> 0, neu |-> Unit]
    ELSE outcome.scores

analyze_with_vader(outcome) ==
    IF outcome.raises
    THEN [compound |-> 0, positive |-> 0, negative |-> 0, neutral |-> Unit]
    ELSE outcome.scores

(***************************************************************************)
(* analyze                                                                 *)
(***************************************************************************)
\* vader_weight = 0.6 and textblob_weight = 0.4, in tenths
VaderWeight == 6
TextBlobWeight == 4

combined_score_unweighted(compound, polarity) == (compound + polarity) \div 2

\* vader_result['compound'] * vader_weight + textblob_result['polarity'] * textblob_weight
combined_score(compound, polarity) ==
    (compound * VaderWeight + polarity * TextBlobWeight) \div 10

agreement_undivided(compound, polarity) == Unit - Abs(compound - polarity)

\* 1 - abs(vader_result['compound'] - textblob_result['polarity']) / 2
agreement(compound, polarity) == Unit - Abs(compound - polarity) \div 2

EmptyTextResult ==
    [sentiment_score |-> 0, textblob_score |-> 0, vader_score |-> 0,
     confidence |-> 0, subjectivity |-> 0]

\* the dict built by the return statement; reading a key the VADER dict lacks
\* raises KeyError
ScoredResult(tb, vd) ==
    [sentiment_score |-> combined_score(vd.compound, tb.polarity),
     textblob_score  |-> tb.polarity,
     vader_score     |-> vd.compound,
     confidence      |-> agreement(vd.compound, tb.polarity),
     subjectivity    |-> tb.subjectivity,
     vader_positive  |-> vd.positive,
     vader_negative  |-> vd.negative,
     vader_neutral   |-> vd.neutral]

KeysRead == {"compound", "positive", "negative", "neutral"}

analyze_scoring(t, tbo, vdo) ==
    LET tb == analyze_with_textblob(tbo)
        vd == analyze_with_vader(vdo)
    IN IF KeysRead \subseteq DOMAIN vd
       THEN [pc |-> "returned", tb |-> tbo, vd |-> vdo,
             invoked |-> {"textblob", "vader"}, result |-> ScoredResult(tb, vd)]
       ELSE [pc |-> "raised", tb |-> tbo, vd |-> vdo,
             invoked |-> {"textblob", "vader"}, result |-> NoValue]

\* analyze without its empty-text return
analyze_unguarded(t, tbo, vdo) == analyze_scoring(t, tbo, vdo)

\* analyze(text), given what the two libraries do when they are called
analyze(t, tbo, vdo) ==
    IF clean_text(t) = <<>>
    THEN [pc |-> "returned", tb |-> NoValue, vd |-> NoValue,
          invoked |-> {}, result |-> EmptyTextResult]
    ELSE analyze_scoring(t, tbo, vdo)

\* texts the analyzer is called with
AnalyzeAlphabet == {" ", "a", "@", "#"}
NoiseTexts ==
    { <<"h", "t", "t", "p", ":", "/", "/", "x">>,
      <<" ", "@", "a", " ", "w", "w", "w", ".", "a", " ">>,
      <<"#", " ", "@", "x", "1", "\t", "#">> }
PlainTexts ==
    { <<"h", "t", "t", "p">>,
      <<"a", " ", "h", "t", "t", "p", "s", ":", "x">>,
      <<"@", "#", "a">> }
AnalyzeTexts ==
    UNION {[1..n -> AnalyzeAlphabet] : n \in 0..MaxTextLen}
        \cup NoiseTexts \cup PlainTexts

AnalyzerIdle ==
    /\ a_pc = "idle"
    /\ text = <<>>
    /\ tb_outcome = NoValue
    /\ vader_outcome = NoValue
    /\ invoked = {}
    /\ result = NoValue

AnalyzerInit ==
    /\ a_pc = "start"
    /\ text \in AnalyzeTexts
    /\ tb_outcome = NoValue
    /\ vader_outcome = NoValue
    /\ invoked = {}
    /\ result = NoValue

Analyze ==
    /\ a_pc = "start"
    /\ \E tbo \in TextBlobOutcomes, vdo \in VaderOutcomes :
         LET r == analyze(text, tbo, vdo)
         IN /\ a_pc' = r.pc
            /\ tb_outcome' = r.tb
            /\ vader_outcome' = r.vd
            /\ invoked' = r.invoked
            /\ result' = r.result
    /\ UNCHANGED <<text, notAnalyzer>>

(***************************************************************************)
(* Claims about analyze                                                    *)
(***************************************************************************)
InDocumentedRange(tbo, vdo) ==
    /\ tbo # NoValue /\ ~tbo.raises
    /\ vdo # NoValue /\ ~vdo.raises
    /\ tbo.polarity \in (-Unit)..Unit
    /\ tbo.subjectivity \in 0..Unit
    /\ vdo.scores.compound \in (-Unit)..Unit

ResultInRange(r) ==
    /\ r.sentiment_score \in (-Unit)..Unit
    /\ r.confidence \in 0..Unit
    /\ r.subjectivity \in 0..Unit

\* C1: whenever both lexical models answer within their documented ranges,
\* analyze returns a record (it does not raise) whose sentiment_score is in
\* [-1,1] and whose confidence and subjectivity are in [0,1].
C1_ReturnsInRange ==
    (a_pc # "start" /\ (invoked = {} \/ InDocumentedRange(tb_outcome, vader_outcome)))
        => (a_pc = "returned" /\ ResultInRange(result))

\* C1, the part that holds: a record analyze does return for answers within
\* the documented ranges is within range.
C1_RangeWhenReturned ==
    (a_pc = "returned" /\ (invoked = {} \/ InDocumentedRange(tb_outcome, vader_outcome)))
        => ResultInRange(result)

\* C2: whatever the lexical models answer, also outside their documented
\* ranges, a returned record has sentiment_score in [-1,1] and confidence and
\* subjectivity in [0,1].
C2_ReturnedIsClamped ==
    a_pc = "returned" => ResultInRange(result)

OnlyWhitespace(s) == \A i \in 1..Len(s) : IsSpace(s[i])

\* C3: a text that is empty, whitespace-only or normalizes to the empty string
\* is answered with sentiment_score = confidence = subjectivity = 0, and
\* neither lexical model is invoked.
C3_EmptyTextIsZero ==
    (a_pc # "start" /\ (OnlyWhitespace(text) \/ clean_text(text) = <<>>))
        => /\ a_pc = "returned"
           /\ result.sentiment_score = 0
           /\ result.confidence = 0
           /\ result.subjectivity = 0
           /\ invoked = {}

C3_Witness ==
    /\ a_pc = "returned"
    /\ text = <<" ", "@", "a", " ", "w", "w", "w", ".", "a", " ">>
    /\ result = EmptyTextResult
    /\ invoked = {}

BothAnswered ==
    /\ a_pc = "returned" /\ invoked # {}
    /\ ~tb_outcome.raises /\ ~vader_outcome.raises

\* C4: for a non-empty normalized text that both models answer,
\* sentiment_score = 0.6 * compound + 0.4 * polarity and subjectivity is the
\* general-purpose model's subjectivity.
C4_WeightedScore ==
    (BothAnswered /\ clean_text(text) # <<>>)
        => /\ 10 * result.sentiment_score
                = 6 * vader_outcome.scores.compound + 4 * tb_outcome.polarity
           /\ result.subjectivity = tb_outcome.subjectivity

C4_Witness ==
    /\ BothAnswered
    /\ clean_text(text) # <<>>
    /\ vader_outcome.scores.compound = Unit
    /\ tb_outcome.polarity = -Half
    /\ result.sentiment_score = 4 * (Unit \div 10)
    /\ result.subjectivity = Half

\* C5: for a non-empty normalized text that both models answer,
\* confidence = 1 - |compound - polarity| / 2: exactly 1.0 when the two values
\* are identical, exactly 0.0 when one is +1 and the other -1.
C5_Confidence ==
    (BothAnswered /\ clean_text(text) # <<>>)
        => LET c == vader_outcome.scores.compound
               p == tb_outcome.polarity
           IN /\ 2 * result.confidence = 2 * Unit - Abs(c - p)
              /\ (c = p => result.confidence = Unit)
              /\ ({c, p} = {Unit, -Unit} => result.confidence = 0)

C5_Witness ==
    /\ BothAnswered
    /\ clean_text(text) # <<>>
    /\ vader_outcome.scores.compound = Unit
    /\ tb_outcome.polarity = -Unit
    /\ result.confidence = 0

(***************************************************************************)
(* classify_sentiment (analyzer) and _classify_sentiment (visualizer)      *)
(***************************************************************************)
\* scores are enumerated in hundredths up to MaxHundredths / 100 either side
MaxHundredths == 110

Hundredth == Unit \div 100

\* the thresholds 0.5 and 0.05 of both classifiers
StrongThreshold == Half
WeakThreshold == 5 * Hundredth

classify_sentiment_strict_positive(s) ==
    IF s >= StrongThreshold THEN "Very Positive"
    ELSE IF s > WeakThreshold THEN "Positive"
    ELSE IF s > -WeakThreshold THEN "Neutral"
    ELSE IF s > -StrongThreshold THEN "Negative"
    ELSE "Very Negative"

classify_sentiment_lax_negative(s) ==
    IF s >= StrongThreshold THEN "Very Positive"
    ELSE IF s >= WeakThreshold THEN "Positive"
    ELSE IF s >= -WeakThreshold THEN "Neutral"
    ELSE IF s > -StrongThreshold THEN "Negative"
    ELSE "Very Negative"

\* SentimentAnalyzer.classify_sentiment
classify_sentiment(s) ==
    IF s >= StrongThreshold THEN "Very Positive"
    ELSE IF s >= WeakThreshold THEN "Positive"
    ELSE IF s > -WeakThreshold THEN "Neutral"
    ELSE IF s > -StrongThreshold THEN "Negative"
    ELSE "Very Negative"

\* SentimentVisualizer._classify_sentiment
visualizer_classify_sentiment(s) ==
    IF s >= StrongThreshold THEN "Very Positive"
    ELSE IF s >= WeakThreshold THEN "Positive"
    ELSE IF s > -WeakThreshold THEN "Neutral"
    ELSE IF s > -StrongThreshold THEN "Negative"
    ELSE "Very Negative"

\* 0.5, 0.49999, 0.05, 0.04999, -0.05, -0.050001, -0.5 and their neighbours
BoundaryScores ==
    {500000, 499990, 50000, 49990, -50000, -50001, -500000,
     500001, 499999, 50001, 49999, -49999, -49990, -499999, -500001}

ClassifyScores ==
    {k * Hundredth : k \in -MaxHundredths..MaxHundredths} \cup BoundaryScores

ClassifierIdle ==
    /\ c_pc = "idle"
    /\ score = 0
    /\ label = NoLabel
    /\ vis_label = NoLabel

ClassifierInit ==
    /\ c_pc = "ready"
    /\ score \in ClassifyScores
    /\ label = NoLabel
    /\ vis_label = NoLabel

ClassifySentiment ==
    /\ c_pc = "ready"
    /\ label = NoLabel
    /\ label' = classify_sentiment(score)
    /\ UNCHANGED <<c_pc, score, vis_label, notClassifier>>

VisualizerClassifySentiment ==
    /\ c_pc = "ready"
    /\ vis_label = NoLabel
    /\ vis_label' = visualizer_classify_sentiment(score)
    /\ UNCHANGED <<c_pc, score, label, notClassifier>>

(***************************************************************************)
(* Claims about the classifiers                                            *)
(***************************************************************************)
Labels == {"Very Positive", "Positive", "Neutral", "Negative", "Very Negative"}

\* the band of the table a score lies in
InBand(l, s) ==
    CASE l = "Very Positive" -> s >= 500000
      [] l = "Positive"      -> 50000 <= s /\ s < 500000
      [] l = "Neutral"       -> -50000 < s /\ s < 50000
      [] l = "Negative"      -> -500000 < s /\ s <= -50000
      [] l = "Very Negative" -> s <= -500000

\* C6: classify_sentiment gives every score exactly one of the five labels,
\* the one whose band of the table holds the score, and the visualizer's
\* _classify_sentiment gives the same label.
C6_BandTable ==
    /\ label # NoLabel =>
         /\ label \in Labels
         /\ \A l \in Labels : InBand(l, score) <=> l = label
    /\ (label # NoLabel /\ vis_label # NoLabel) => vis_label = label

C6_Witness ==
    /\ score = -50000
    /\ label = "Negative"
    /\ vis_label = "Negative"

\* C7 as stated: the seven boundary scores get the labels Very Positive,
\* Positive, Positive, Neutral, Neutral (for -0.05), Negative, Very Negative.
C7_BoundariesAsStated ==
    label # NoLabel =>
        /\ score = 500000 => label = "Very Positive"
        /\ score = 499990 => label = "Positive"
        /\ score = 50000 => label = "Positive"
        /\ score = 49990 => label = "Neutral"
        /\ score = -50000 => label = "Neutral"
        /\ score = -50001 => label = "Negative"
        /\ score = -500000 => label = "Very Negative"

\* C7 amended: as stated, except that classify(-0.05) is Negative.
C7_Boundaries ==
    label # NoLabel =>
        /\ score = 500000 => label = "Very Positive"
        /\ score = 499990 => label = "Positive"
        /\ score = 50000 => label = "Positive"
        /\ score = 49990 => label = "Neutral"
        /\ score = -50000 => label = "Negative"
        /\ score = -50001 => label = "Negative"
        /\ score = -500000 => label = "Very Negative"

C7_Witness ==
    /\ score = -50000
    /\ label = "Negative"
    /\ vis_label = NoLabel

(***************************************************************************)
(* MarketIndicators: the four collectors                                   *)
(*                                                                         *)
(* A collector's dict keeps the fields a caller reads (the reading, the    *)
(* sentiment, the score); its description and timestamp fields are left    *)
(* out.  A fetch that fails (no rows, or an exception, which every         *)
(* collector catches) makes the collector return the empty dict.           *)
(***************************************************************************)
Tenth == Unit \div 10

FetchFailed == [failed |-> TRUE]

\* ^VIX closing levels a fetch may see, around the bands 15 / 25 / 35 and the
\* breadth rule's 20
VixFetches == {FetchFailed} \cup {[failed |-> FALSE, close |-> v] : v \in {10, 15, 21, 25, 35}}

get_vix(fetch) ==
    IF fetch.failed THEN EmptyDict
    ELSE LET current_vix == fetch.close
         IN IF current_vix < 15
            THEN [current_vix |-> current_vix, sentiment |-> "complacent", score |-> 5 * Tenth]
            ELSE IF current_vix < 25
            THEN [current_vix |-> current_vix, sentiment |-> "neutral", score |-> 0]
            ELSE IF current_vix < 35
            THEN [current_vix |-> current_vix, sentiment |-> "fearful", score |-> -4 * Tenth]
            ELSE [current_vix |-> current_vix, sentiment |-> "panic", score |-> -8 * Tenth]

\* percentage change of the ^ISSU (NYSE) and ^ISSQ (NASDAQ) series over the
\* period, or a fetch with no rows
Rows(values) == {FetchFailed} \cup {[failed |-> FALSE, pct |-> v] : v \in values}
NyseFetches == Rows({-12, -10, 0, 2, 12})
NasdaqFetches == Rows({-10, 0, 10})

\* result.get('..._ad_pct', 0)
PctOrZero(fetch) == IF fetch.failed THEN 0 ELSE fetch.pct

\* the keys result.update() adds to the exchange keys set before it; avg_pct
\* is kept doubled, (nyse + nasdaq), so that it stays an integer
ADLineDict(nyse, nasdaq, sentiment, sc) ==
    LET rated == [sentiment |-> sentiment, score |-> sc,
                  avg_pct_change_x2 |-> PctOrZero(nyse) + PctOrZero(nasdaq)]
        n == IF nyse.failed THEN EmptyDict ELSE [nyse_ad_pct |-> nyse.pct]
        q == IF nasdaq.failed THEN EmptyDict ELSE [nasdaq_ad_pct |-> nasdaq.pct]
    IN n @@ q @@ rated

get_advance_decline_line(nyse, nasdaq) ==
    IF nyse.failed /\ nasdaq.failed THEN EmptyDict
    ELSE LET avg_pct_x2 == PctOrZero(nyse) + PctOrZero(nasdaq)
         IN IF avg_pct_x2 > 2 * 5
            THEN ADLineDict(nyse, nasdaq, "bullish", 6 * Tenth)
            ELSE IF avg_pct_x2 > 0
            THEN ADLineDict(nyse, nasdaq, "slightly_bullish", 2 * Tenth)
            ELSE IF avg_pct_x2 > 2 * (-5)
            THEN ADLineDict(nyse, nasdaq, "slightly_bearish", -2 * Tenth)
            ELSE ADLineDict(nyse, nasdaq, "bearish", -6 * Tenth)

\* the options chain of the nearest expiration: (puts volume, calls volume),
\* or no chain (no expirations, or the fetch raised)
OptionFetches ==
    {FetchFailed} \cup
    {[failed |-> FALSE, puts |-> pc[1], calls |-> pc[2]] :
        pc \in {<<5, 0>>, <<16, 10>>, <<15, 10>>, <<10, 10>>, <<7, 10>>, <<5, 10>>}}

get_put_call_ratio_estimate(fetch) ==
    IF fetch.failed THEN EmptyDict
    ELSE LET ratio == IF fetch.calls > 0
                      THEN (fetch.puts * Unit) \div fetch.calls
                      ELSE 0
             rated(sentiment, sc) ==
                 [put_call_ratio |-> ratio, puts_volume |-> fetch.puts,
                  calls_volume |-> fetch.calls, sentiment |-> sentiment, score |-> sc]
         IN IF ratio > 15 * Tenth THEN rated("extreme_bearish", 3 * Tenth)
            ELSE IF ratio > 10 * Tenth THEN rated("bearish", -4 * Tenth)
            ELSE IF ratio > 7 * Tenth THEN rated("neutral", 0)
            ELSE rated("bullish", 4 * Tenth)

\* SPY return over the period in percent, or a fetch with no rows
SpyFetches == Rows({-6, -5, 1})

\* get_market_breadth_spy fetches the VIX again, by its own call of get_vix
get_market_breadth_spy(spy, vix_fetch) ==
    IF spy.failed THEN EmptyDict
    ELSE LET vix_data == get_vix(vix_fetch)
             spy_return == spy.pct
             rated(sentiment, sc) ==
                 [spy_return_pct |-> spy_return, sentiment |-> sentiment, score |-> sc]
         IN IF vix_data # EmptyDict
            THEN IF spy_return > 0 /\ vix_data.current_vix > 20
                 THEN rated("narrow_leadership", 1 * Tenth)
                 ELSE IF spy_return > 0 THEN rated("broad_strength", 6 * Tenth)
                 ELSE IF spy_return < -5 THEN rated("broad_weakness", -6 * Tenth)
                 ELSE rated("neutral", 0)
            ELSE rated("unknown", 0)

(***************************************************************************)
(* get_overall_market_sentiment                                            *)
(***************************************************************************)
\* the weights 0.3, 0.3, 0.2, 0.2 in tenths
VixWeight == 3
ADLineWeight == 3
PutCallWeight == 2
BreadthWeight == 2

\* scores.append(d['score']); weights.append(w), when the dict d is not empty
Appended(d, w) == IF d # EmptyDict THEN <<[score |-> d.score, weight |-> w]>> ELSE <<>>

\* sum(s * w for s, w in zip(scores, weights))
RECURSIVE WeightedSum(_)
WeightedSum(items) ==
    IF items = <<>> THEN 0
    ELSE Head(items).score * Head(items).weight + WeightedSum(Tail(items))

weight_count(items) == Len(items)

\* sum(weights)
RECURSIVE WeightSum(_)
WeightSum(items) ==
    IF items = <<>> THEN 0 ELSE Head(items).weight + WeightSum(Tail(items))

\* a quotient num / den of millionths, kept exact; den > 0
Quotient(n, d) == [num |-> n, den |-> d]
\* q > t for a threshold t in millionths
Gt(q, t) == q.num > t * q.den

unnormalized_composite(items) == Quotient(WeightedSum(items), 1)

undivided_composite(items) == Quotient(WeightedSum(items), 10)

\* sum(s * w ...) / sum(weights)
composite(items) == Quotient(WeightedSum(items), WeightSum(items))

\* the label SentimentAnalyzer.classify_sentiment gives a quotient
ClassifierLabel(q) ==
    IF q.num >= StrongThreshold * q.den THEN "Very Positive"
    ELSE IF q.num >= WeakThreshold * q.den THEN "Positive"
    ELSE IF q.num > -WeakThreshold * q.den THEN "Neutral"
    ELSE IF q.num > -StrongThreshold * q.den THEN "Negative"
    ELSE "Very Negative"

market_sentiment_by_classifier(q) == ClassifierLabel(q)

\* the if / elif chain on composite_score
market_sentiment(q) ==
    IF Gt(q, 4 * Tenth) THEN "bullish"
    ELSE IF Gt(q, 1 * Tenth) THEN "slightly_bullish"
    ELSE IF Gt(q, -1 * Tenth) THEN "neutral"
    ELSE IF Gt(q, -4 * Tenth) THEN "slightly_bearish"
    ELSE "bearish"

MarketDict(items, v, a, p, b) ==
    LET composite_score == composite(items)
    IN [composite_score |-> composite_score,
        sentiment |-> market_sentiment(composite_score),
        vix |-> v, advance_decline |-> a, put_call_ratio |-> p,
        market_breadth |-> b]

NeutralMarketDict(v, a, p, b) ==
    [composite_score |-> Quotient(0, 1), sentiment |-> "neutral",
     vix |-> v, advance_decline |-> a, put_call_ratio |-> p, market_breadth |-> b]

overall_neutral_when_empty(v, a, p, b) ==
    LET items == Appended(v, VixWeight) \o Appended(a, ADLineWeight)
                    \o Appended(p, PutCallWeight) \o Appended(b, BreadthWeight)
    IN IF items = <<>> THEN NeutralMarketDict(v, a, p, b)
       ELSE MarketDict(items, v, a, p, b)

\* the body of get_overall_market_sentiment once the four collectors returned
overall_market_sentiment(v, a, p, b) ==
    LET items == Appended(v, VixWeight) \o Appended(a, ADLineWeight)
                    \o Appended(p, PutCallWeight) \o Appended(b, BreadthWeight)
    IN IF items = <<>> THEN EmptyDict
       ELSE MarketDict(items, v, a, p, b)

MarketIdle ==
    /\ m_pc = "idle"
    /\ vix = EmptyDict
    /\ ad_line = EmptyDict
    /\ pc_ratio = EmptyDict
    /\ breadth = EmptyDict
    /\ market = EmptyDict

MarketInit ==
    /\ m_pc = "start"
    /\ vix = EmptyDict
    /\ ad_line = EmptyDict
    /\ pc_ratio = EmptyDict
    /\ breadth = EmptyDict
    /\ market = EmptyDict

GetOverallMarketSentiment ==
    /\ m_pc = "start"
    /\ \E vf \in VixFetches, nf \in NyseFetches, qf \in NasdaqFetches,
          of \in OptionFetches, sf \in SpyFetches, vf2 \in VixFetches :
         LET v == get_vix(vf)
             a == get_advance_decline_line(nf, qf)
             p == get_put_call_ratio_estimate(of)
             b == get_market_breadth_spy(sf, vf2)
         IN /\ vix' = v
            /\ ad_line' = a
            /\ pc_ratio' = p
            /\ breadth' = b
            /\ market' = overall_market_sentiment(v, a, p, b)
    /\ m_pc' = "returned"
    /\ UNCHANGED notMarket

(***************************************************************************)
(* Claims about the composite                                              *)
(***************************************************************************)
Present(d) == d # EmptyDict

NonePresent ==
    ~Present(vix) /\ ~Present(ad_line) /\ ~Present(pc_ratio) /\ ~Present(breadth)

ScoreOrZero(d) == IF Present(d) THEN d.score ELSE 0
Share(d, tenths) == IF Present(d) THEN tenths ELSE 0

\* sum of score * weight, and of weight, over the present indicators, with the
\* weights 0.3, 0.3, 0.2, 0.2 in tenths
PresentWeighted(v, a, p, b) ==
    3 * ScoreOrZero(v) + 3 * ScoreOrZero(a) + 2 * ScoreOrZero(p) + 2 * ScoreOrZero(b)
PresentWeight(v, a, p, b) ==
    Share(v, 3) + Share(a, 3) + Share(p, 2) + Share(b, 2)

\* C8 as stated: with no sub-score present the composite is score = 0,
\* label = Neutral, contributing_weight_fraction = 0.
C8_UnknownAsStated ==
    (m_pc = "returned" /\ NonePresent)
        => /\ DOMAIN market # {}
           /\ market.composite_score.num = 0
           /\ market.label = "Neutral"
           /\ market.contributing_weight_fraction = 0

\* C8 amended: with no sub-score present get_overall_market_sentiment returns
\* the empty dict (no score, no label, no coverage), and a result that does
\* carry a composite_score was divided by a positive weight sum.
C8_EmptyWhenNonePresent ==
    m_pc = "returned"
        => /\ NonePresent => market = EmptyDict
           /\ market # EmptyDict => market.composite_score.den > 0

C8_Witness ==
    /\ m_pc = "returned"
    /\ NonePresent
    /\ market = EmptyDict

\* C9: for every non-empty set of present indicators, composite_score is the
\* sum of score * weight over the present ones divided by the sum of their
\* weights (0.3, 0.3, 0.2, 0.2), so the weights in use sum to 1 after
\* renormalization whatever is absent.
C9_Renormalized ==
    (m_pc = "returned" /\ ~NonePresent)
        => /\ market # EmptyDict
           /\ market.composite_score.den > 0
           /\ market.composite_score.num * PresentWeight(vix, ad_line, pc_ratio, breadth)
                = PresentWeighted(vix, ad_line, pc_ratio, breadth) * market.composite_score.den

C9_Witness ==
    /\ m_pc = "returned"
    /\ Present(vix) /\ vix.score = 5 * Tenth
    /\ Present(ad_line) /\ ad_line.score = -6 * Tenth
    /\ ~Present(pc_ratio) /\ ~Present(breadth)
    /\ market.composite_score = Quotient(-3 * Tenth, 6)

\* C10 as stated: every composite result reports contributing_weight_fraction,
\* the present weight over the intended weight.
C10_CoverageAsStated ==
    (m_pc = "returned" /\ ~NonePresent)
        => /\ "contributing_weight_fraction" \in DOMAIN market
           /\ 10 * market.contributing_weight_fraction
                = Unit * PresentWeight(vix, ad_line, pc_ratio, breadth)

\* C10 amended: a composite result has no contributing_weight_fraction; the
\* present weight over the intended weight (1.0) is the divisor of its
\* composite_score, computable from the indicator dicts the result carries:
\* it is in (0,1], and 1.0 exactly when all four indicators are present.
C10_CoverageIsTheDivisor ==
    (m_pc = "returned" /\ market # EmptyDict)
        => LET cover == PresentWeight(market.vix, market.advance_decline,
                                      market.put_call_ratio, market.market_breadth)
           IN /\ "contributing_weight_fraction" \notin DOMAIN market
              /\ market.composite_score.den = cover
              /\ cover \in 1..10
              /\ cover = 10 <=> /\ Present(market.vix)
                                /\ Present(market.advance_decline)
                                /\ Present(market.put_call_ratio)
                                /\ Present(market.market_breadth)

C10_Witness ==
    /\ m_pc = "returned"
    /\ ~Present(vix) /\ ~Present(ad_line)
    /\ Present(pc_ratio) /\ Present(breadth)
    /\ market.composite_score.den = 4
    /\ "contributing_weight_fraction" \notin DOMAIN market

\* C11 as stated: the label of the composite is the Classifier's label of
\* composite_score (Very Positive .. Very Negative at +-0.05 and +-0.5); with
\* VIX 0.5, breadth -0.6 and the others absent the label is Neutral.
C11_LabelAsStated ==
    (m_pc = "returned" /\ ~NonePresent)
        => market.sentiment = ClassifierLabel(market.composite_score)

MarketLabels ==
    {"bullish", "slightly_bullish", "neutral", "slightly_bearish", "bearish"}

\* C11 amended: the label of the composite is one of bullish, slightly_bullish,
\* neutral, slightly_bearish, bearish, by the composite's own bands: above 0.4,
\* above 0.1, above -0.1, above -0.4, and the rest; with VIX 0.5, breadth -0.6
\* and the others absent the score is -0.05 and the label is neutral.
C11_MarketBands ==
    (m_pc = "returned" /\ ~NonePresent)
        => LET q == market.composite_score
               l == market.sentiment
           IN /\ l \in MarketLabels
              /\ l = "bullish" <=> Gt(q, 4 * Tenth)
              /\ l = "slightly_bullish" <=> (Gt(q, Tenth) /\ ~Gt(q, 4 * Tenth))
              /\ l = "neutral" <=> (Gt(q, -Tenth) /\ ~Gt(q, Tenth))
              /\ l = "slightly_bearish" <=> (Gt(q, -4 * Tenth) /\ ~Gt(q, -Tenth))
              /\ l = "bearish" <=> ~Gt(q, -4 * Tenth)
              /\ (/\ Present(vix) /\ vix.score = 5 * Tenth
                  /\ Present(ad_line) /\ ad_line.score = -6 * Tenth
                  /\ ~Present(pc_ratio) /\ ~Present(breadth))
                    => /\ q.num = -5 * Hundredth * q.den
                       /\ l = "neutral"

C11_Witness ==
    /\ m_pc = "returned"
    /\ Present(vix) /\ vix.score = 5 * Tenth
    /\ Present(ad_line) /\ ad_line.score = -6 * Tenth
    /\ ~Present(pc_ratio) /\ ~Present(breadth)
    /\ market.sentiment = "neutral"
    /\ ClassifierLabel(market.composite_score) = "Negative"

\* the scores the four collectors' rule tables can give
IndicatorScores ==
    [vix |-> {5 * Tenth, 0, -4 * Tenth, -8 * Tenth},
     ad_line |-> {6 * Tenth, 2 * Tenth, -2 * Tenth, -6 * Tenth},
     pc_ratio |-> {3 * Tenth, -4 * Tenth, 0, 4 * Tenth},
     breadth |-> {Tenth, 6 * Tenth, -6 * Tenth, 0}]

\* C24: whichever indicators are present and whichever band each is in,
\* composite_score lies in [-1, 1], as every sub-score does.
C24_CompositeInRange ==
    (m_pc = "returned" /\ ~NonePresent)
        => /\ Present(vix) => vix.score \in IndicatorScores.vix
           /\ Present(ad_line) => ad_line.score \in IndicatorScores.ad_line
           /\ Present(pc_ratio) => pc_ratio.score \in IndicatorScores.pc_ratio
           /\ Present(breadth) => breadth.score \in IndicatorScores.breadth
           /\ market.composite_score.den > 0
           /\ market.composite_score.num <= Unit * market.composite_score.den
           /\ market.composite_score.num >= -Unit * market.composite_score.den

C24_Witness ==
    /\ m_pc = "returned"
    /\ Present(vix) /\ vix.score = -8 * Tenth
    /\ Present(ad_line) /\ ad_line.score = -6 * Tenth
    /\ Present(pc_ratio) /\ pc_ratio.score = -4 * Tenth
    /\ Present(breadth) /\ breadth.score = -6 * Tenth
    /\ market.composite_score.num * 100 = -62 * Unit * market.composite_score.den

\* C25: only indicators backed by data contribute: when SPY breadth comes
\* back 'unknown' (no VIX data to assess it) it is treated as absent, adding
\* neither its score nor its weight 0.2 to the weighted average; with nothing
\* else present there is no composite.
C25_UnknownIsAbsent ==
    (m_pc = "returned" /\ Present(breadth) /\ breadth.sentiment = "unknown")
        => IF Present(vix) \/ Present(ad_line) \/ Present(pc_ratio)
           THEN /\ market # EmptyDict
                /\ market.composite_score.num
                     * PresentWeight(vix, ad_line, pc_ratio, EmptyDict)
                    = PresentWeighted(vix, ad_line, pc_ratio, EmptyDict)
                        * market.composite_score.den
           ELSE market = EmptyDict

(***************************************************************************)
(* Python floats (IEEE 754 binary64), for the values the code computes     *)
(* from integers: non-negative, neither subnormal nor infinite.  A float   *)
(* is its exponent and its 53 significand bits, most significant first;    *)
(* every operation is the exact result rounded to nearest, ties to even.   *)
(***************************************************************************)
\* sys.float_info.mant_dig
MantDig == 53

\* [exp, bits]: the value is the sum of bits[i] * 2^(exp + 1 - i); bits[1] = 1
FloatZero == [exp |-> 0, bits |-> <<>>]

Zeros(n) == [i \in 1..n |-> 0]

\* number of binary digits of a natural number below 2^30 (0 for 0)
BitLength(n) == CHOOSE w \in 0..30 : n < 2 ^ w /\ (w = 0 \/ n >= 2 ^ (w - 1))

\* the bits of a natural number, most significant first (<<>> for 0)
NatBits(n) == [i \in 1..BitLength(n) |-> (n \div 2 ^ (BitLength(n) - i)) % 2]

\* the natural number the first n bits of a bit sequence spell
RECURSIVE BitsNatUpTo(_, _)
BitsNatUpTo(b, n) == IF n = 0 THEN 0 ELSE 2 * BitsNatUpTo(b, n - 1) + b[n]

BitsNat(b) == BitsNatUpTo(b, Len(b))

DropLeadingZeros(b) ==
    IF \A i \in 1..Len(b) : b[i] = 0 THEN <<>>
    ELSE SubSeq(b, CHOOSE i \in 1..Len(b) :
                       b[i] = 1 /\ \A j \in 1..(i - 1) : b[j] = 0, Len(b))

\* b + 1 on a bit sequence (one bit longer when b is all ones)
Increment(b) ==
    IF \A i \in 1..Len(b) : b[i] = 1 THEN <<1>> \o Zeros(Len(b))
    ELSE LET last == CHOOSE i \in 1..Len(b) :
                         b[i] = 0 /\ \A j \in (i + 1)..Len(b) : b[j] = 1
         IN [i \in 1..Len(b) |-> IF i < last THEN b[i] ELSE IF i = last THEN 1 ELSE 0]

\* round to nearest, ties to even: the exact value has the bits b (b[1] = 1,
\* most significant of exponent e), followed by something non-zero iff sticky
RoundToFloat(e, b, sticky) ==
    IF b = <<>> THEN FloatZero
    ELSE IF Len(b) <= MantDig
    THEN [exp |-> e, bits |-> b \o Zeros(MantDig - Len(b))]
    ELSE LET kept == SubSeq(b, 1, MantDig)
             guard == b[MantDig + 1]
             rest == sticky \/ \E i \in (MantDig + 2)..Len(b) : b[i] = 1
             up == guard = 1 /\ (rest \/ kept[MantDig] = 1)
             inc == Increment(kept)
         IN IF ~up THEN [exp |-> e, bits |-> kept]
            ELSE IF Len(inc) > MantDig
            THEN [exp |-> e + 1, bits |-> SubSeq(inc, 1, MantDig)]
            ELSE [exp |-> e, bits |-> inc]

\* the first n binary digits of r / t after the point, for 0 <= r < t
RECURSIVE FractionBits(_, _, _)
FractionBits(r, t, n) ==
    IF n = 0 THEN <<>>
    ELSE <<(2 * r) \div t>> \o FractionBits((2 * r) % t, t, n - 1)

\* what is left of r / t after its first n binary digits
RECURSIVE FractionRest(_, _, _)
FractionRest(r, t, n) ==
    IF n = 0 THEN r ELSE FractionRest((2 * r) % t, t, n - 1)

\* number of zero digits r / t starts with after the point (0 < r < t)
RECURSIVE LeadingFractionZeros(_, _)
LeadingFractionZeros(r, t) ==
    IF 2 * r >= t THEN 0 ELSE 1 + LeadingFractionZeros(2 * r, t)

\* c / t for integers c >= 0, t > 0 (int / int is correctly rounded)
FloatDivide(c, t) ==
    IF c = 0 THEN FloatZero
    ELSE LET whole == NatBits(c \div t)
             r == c % t
             skip == IF whole = <<>> /\ r > 0 THEN LeadingFractionZeros(r, t) ELSE 0
             digits == skip + MantDig + 2
             all == whole \o FractionBits(r, t, digits)
         IN RoundToFloat(IF whole = <<>> THEN -(skip + 1) ELSE Len(whole) - 1,
                         DropLeadingZeros(all), FractionRest(r, t, digits) # 0)

\* float(n) for a small natural n
FloatOf(n) == FloatDivide(n, 1)

\* the carry out of the n least significant bits of b * k
RECURSIVE TimesNatCarry(_, _, _)
TimesNatCarry(b, k, n) ==
    IF n = 0 THEN 0
    ELSE (b[Len(b) - n + 1] * k + TimesNatCarry(b, k, n - 1)) \div 2

\* b * k on a bit sequence, for a natural k
TimesNat(b, k) ==
    NatBits(TimesNatCarry(b, k, Len(b)))
        \o [i \in 1..Len(b) |-> (b[i] * k + TimesNatCarry(b, k, Len(b) - i)) % 2]

\* the exact product x * k as [exp, bits] with bits of any length
ExactTimesNat(x, k) ==
    LET prod == DropLeadingZeros(TimesNat(x.bits, k))
    IN [exp |-> x.exp + (Len(prod) - Len(x.bits)), bits |-> prod]

\* x * k for a float x and a small natural k (k converts exactly)
FloatTimesNat(x, k) ==
    IF x = FloatZero \/ k = 0 THEN FloatZero
    ELSE LET p == ExactTimesNat(x, k) IN RoundToFloat(p.exp, p.bits, FALSE)

\* the carry out of the n least significant bits of a + b (equal lengths)
RECURSIVE AddBitsCarry(_, _, _)
AddBitsCarry(a, b, n) ==
    IF n = 0 THEN 0
    ELSE (a[Len(a) - n + 1] + b[Len(b) - n + 1] + AddBitsCarry(a, b, n - 1)) \div 2

\* a + b on bit sequences of equal length
AddBits(a, b) ==
    NatBits(AddBitsCarry(a, b, Len(a)))
        \o [i \in 1..Len(a) |-> (a[i] + b[i] + AddBitsCarry(a, b, Len(a) - i)) % 2]

\* x + y
FloatAdd(x, y) ==
    IF x = FloatZero THEN y
    ELSE IF y = FloatZero THEN x
    ELSE LET top == IF x.exp > y.exp THEN x.exp ELSE y.exp
             low == (IF x.exp < y.exp THEN x.exp ELSE y.exp) - (MantDig - 1)
             width == top - low + 1
             \* both significands over the bit positions top .. low
             spread(f) == Zeros(top - f.exp) \o f.bits
                            \o Zeros(width - (top - f.exp) - MantDig)
             total == AddBits(spread(x), spread(y))
         IN RoundToFloat(top + (Len(total) - width), total, FALSE)

\* floor(x * 10^6): a float below 2^31 / 10^6 in millionths, rounded down
FloatMillionths(x) ==
    IF x = FloatZero THEN 0
    ELSE LET p == ExactTimesNat(x, Unit)
             whole == p.exp + 1
         IN IF whole <= 0 THEN 0
            ELSE IF whole >= Len(p.bits) THEN BitsNat(p.bits \o Zeros(whole - Len(p.bits)))
            ELSE BitsNat(SubSeq(p.bits, 1, whole))

(***************************************************************************)
(* analyze_batch and get_overall_sentiment                                 *)
(***************************************************************************)
\* analyze_batch(texts): analyze on each text in turn; an exception leaving
\* one call leaves analyze_batch with nothing returned
analyze_batch(ts, rs) ==
    LET analyses == [i \in 1..Len(ts) |-> analyze(ts[i], rs[i].tb, rs[i].vd)]
        raising == {i \in 1..Len(ts) : analyses[i].pc = "raised"}
    IN IF raising = {}
       THEN [pc |-> "returned", scored |-> Len(ts),
             results |-> [i \in 1..Len(ts) |-> analyses[i].result]]
       ELSE [pc |-> "raised",
             scored |-> CHOOSE i \in raising : \A j \in raising : i <= j,
             results |-> NoValue]

texts_consumed(ts) == <<>>

\* the caller's list as a call leaves it: both methods only test and iterate
\* texts, and call nothing that changes it or its strings
texts_after(ts) == ts

\* sum(r['sentiment_score'] for r in results)
RECURSIVE score_sum(_)
score_sum(rs) ==
    IF rs = <<>> THEN 0 ELSE Head(rs).sentiment_score + score_sum(Tail(rs))

average_unweighted(rs) == Quotient(score_sum(rs), 1)

\* sum(...) / total
average_sentiment(rs) == Quotient(score_sum(rs), Len(rs))

positive_threshold == 5 * Hundredth
negative_threshold == -5 * Hundredth

\* sum(1 for r in results if r['sentiment_score'] > positive_threshold)
positive_count(rs) ==
    Cardinality({i \in 1..Len(rs) : rs[i].sentiment_score > positive_threshold})

\* sum(1 for r in results if r['sentiment_score'] < negative_threshold)
negative_count(rs) ==
    Cardinality({i \in 1..Len(rs) : rs[i].sentiment_score < negative_threshold})

neutral_count_of_non_positive(total, positive, negative) == total - positive

\* total - positive_count - negative_count
neutral_count(total, positive, negative) == total - positive - negative

\* a text of the batch with what the libraries do with it.  Both models
\* answering v gives the text the score v.
Agreeing(t, v) ==
    [text |-> t,
     tb |-> [raises |-> FALSE, polarity |-> v, subjectivity |-> Half],
     vd |-> [raises |-> FALSE, scores |-> DocumentedScores(v, <<Half, 0, Half>>)]]

BatchScores ==
    {8 * Tenth, -9 * Tenth, 0, Tenth, -2 * Tenth, 5 * Hundredth, -5 * Hundredth}

BatchItems ==
    {Agreeing(<<"a">>, v) : v \in BatchScores}
    \cup {Agreeing(<<" ">>, 0)}
    \cup {[text |-> <<"a">>, tb |-> [raises |-> TRUE],
           vd |-> [raises |-> FALSE,
                   scores |-> DocumentedScores(8 * Tenth, <<Half, 0, Half>>)]]}
    \cup {[text |-> <<"a">>,
           tb |-> [raises |-> FALSE, polarity |-> Half, subjectivity |-> Half],
           vd |-> [raises |-> FALSE,
                   scores |-> LibraryScores(Half, <<Half, 0, Half>>)]]}

\* five texts scoring 0.8, -0.9, 0.0, 0.1 and -0.2
ExampleBatch ==
    <<Agreeing(<<"a">>, 8 * Tenth), Agreeing(<<"a">>, -9 * Tenth),
      Agreeing(<<"a">>, 0), Agreeing(<<"a">>, Tenth),
      Agreeing(<<"a">>, -2 * Tenth)>>

Batches ==
    UNION {[1..n -> BatchItems] : n \in 0..MaxBatch} \cup {ExampleBatch}

\* the (count, total) pairs a summary of one of the batches can hold
CountPairs ==
    {<<count, Len(batch)>> : count \in 0..MaxBatch + Len(ExampleBatch),
                             batch \in Batches \ {<<>>}}

percentage_as_fraction(count, total) == FloatDivide(count, total)

\* (count / total) * 100
percentage(count, total) == FloatTimesNat(FloatDivide(count, total), 100)

\* percentage, evaluated once for each pair
Percentages == [p \in CountPairs |-> percentage(p[1], p[2])]

EmptySummaryWithoutMean ==
    [average_sentiment |-> NoValue, positive_count |-> 0, negative_count |-> 0,
     neutral_count |-> 0, total_count |-> 0]

\* the dict returned for an empty list
EmptySummary ==
    [average_sentiment |-> Quotient(0, 1), positive_count |-> 0,
     negative_count |-> 0, neutral_count |-> 0, total_count |-> 0]

\* the dict returned for the results of a non-empty list
Summary(rs) ==
    LET total == Len(rs)
        positive == positive_count(rs)
        negative == negative_count(rs)
        neutral == neutral_count(total, positive, negative)
    IN [average_sentiment |-> average_sentiment(rs),
        positive_count |-> positive,
        negative_count |-> negative,
        neutral_count |-> neutral,
        total_count |-> total,
        positive_percentage |-> Percentages[<<positive, total>>],
        negative_percentage |-> Percentages[<<negative, total>>],
        neutral_percentage |-> Percentages[<<neutral, total>>]]

\* get_overall_sentiment(texts)
get_overall_sentiment(ts, rs) ==
    IF ts = <<>>
    THEN [pc |-> "returned", scored |-> 0, results |-> NoValue,
          summary |-> EmptySummary]
    ELSE LET batch == analyze_batch(ts, rs)
         IN IF batch.pc = "raised"
            THEN [pc |-> "raised", scored |-> batch.scored,
                  results |-> NoValue, summary |-> NoValue]
            ELSE [pc |-> "returned", scored |-> batch.scored,
                  results |-> batch.results, summary |-> Summary(batch.results)]

BatchIdle ==
    /\ b_pc = "idle"
    /\ b_op = "none"
    /\ texts = <<>>
    /\ readings = <<>>
    /\ scored = 0
    /\ results = NoValue
    /\ summary = NoValue

BatchInit ==
    /\ b_pc = "start"
    /\ b_op = "none"
    /\ \E batch \in Batches :
         /\ texts = [i \in 1..Len(batch) |-> batch[i].text]
         /\ readings = [i \in 1..Len(batch) |->
                           [tb |-> batch[i].tb, vd |-> batch[i].vd]]
    /\ scored = 0
    /\ results = NoValue
    /\ summary = NoValue

AnalyzeBatch ==
    /\ b_pc = "start"
    /\ LET r == analyze_batch(texts, readings)
       IN /\ b_pc' = r.pc
          /\ scored' = r.scored
          /\ results' = r.results
    /\ b_op' = "analyze_batch"
    /\ texts' = texts_after(texts)
    /\ UNCHANGED <<readings, summary, notBatch>>

GetOverallSentiment ==
    /\ b_pc = "start"
    /\ LET r == get_overall_sentiment(texts, readings)
       IN /\ b_pc' = r.pc
          /\ scored' = r.scored
          /\ results' = r.results
          /\ summary' = r.summary
    /\ b_op' = "get_overall_sentiment"
    /\ texts' = texts_after(texts)
    /\ UNCHANGED <<readings, notBatch>>

(***************************************************************************)
(* Claims about the batch summary                                          *)
(***************************************************************************)
Summarized ==
    b_op = "get_overall_sentiment" /\ b_pc = "returned"

NonEmptySummarized == Summarized /\ texts # <<>>

PercentageKeys ==
    {"positive_percentage", "negative_percentage", "neutral_percentage"}

\* C13 as stated: for an empty list the summary has total count 0, the three
\* counts 0 and the three percentage fields, all present and equal to 0.
C13_EmptySummary ==
    (Summarized /\ texts = <<>>)
        => /\ summary.total_count = 0
           /\ summary.positive_count = 0
           /\ summary.negative_count = 0
           /\ summary.neutral_count = 0
           /\ \A k \in PercentageKeys :
                k \in DOMAIN summary /\ summary[k] = FloatZero

\* C14 as stated: for an empty list the mean is reported as an undefined
\* sentinel, never as 0.
C14_UndefinedMean ==
    (Summarized /\ texts = <<>>) => summary.average_sentiment = NoValue

\* C14 amended: for an empty list the mean is reported as 0.0.
C14_ZeroMean ==
    (Summarized /\ texts = <<>>) => summary.average_sentiment = Quotient(0, 1)

C14_Witness ==
    /\ Summarized
    /\ texts = <<>>
    /\ summary.total_count = 0
    /\ summary.average_sentiment.num = 0

\* C15: in the summary of a non-empty batch the positive, negative and
\* neutral counts are each at least 0 and add up to total_count, which is
\* the number of texts given.
C15_CountsPartition ==
    NonEmptySummarized
        => /\ summary.positive_count >= 0
           /\ summary.negative_count >= 0
           /\ summary.neutral_count >= 0
           /\ summary.positive_count + summary.negative_count
                + summary.neutral_count = summary.total_count
           /\ summary.total_count = Len(texts)

C15_Witness ==
    /\ NonEmptySummarized
    /\ Len(texts) = MaxBatch
    /\ summary.positive_count > 0
    /\ summary.negative_count > 0
    /\ summary.neutral_count > 0

\* the three percentages of the summaries a batch can have, in the order
\* positive, negative, neutral
PercentageTriples ==
    {<<Percentages[<<c[1], c[1] + c[2] + c[3]>>],
       Percentages[<<c[2], c[1] + c[2] + c[3]>>],
       Percentages[<<c[3], c[1] + c[2] + c[3]>>]>> :
        c \in {d \in (0..Len(ExampleBatch) + MaxBatch)
                        \X (0..Len(ExampleBatch) + MaxBatch)
                        \X (0..Len(ExampleBatch) + MaxBatch) :
                  <<d[1], d[1] + d[2] + d[3]>> \in CountPairs}}

\* positive + negative + neutral percentage, as Python adds three floats
PercentageSums ==
    [f \in PercentageTriples |-> FloatAdd(FloatAdd(f[1], f[2]), f[3])]

PercentagesOf(s) ==
    <<s.positive_percentage, s.negative_percentage, s.neutral_percentage>>

\* the float 100.0
Hundred == FloatOf(100)

\* C16 as stated: each percentage is its count / total_count * 100 and the
\* three percentages add up to 100.0.
C16_SumIsHundred ==
    NonEmptySummarized
        => /\ summary.positive_percentage
                = percentage(summary.positive_count, summary.total_count)
           /\ summary.negative_percentage
                = percentage(summary.negative_count, summary.total_count)
           /\ summary.neutral_percentage
                = percentage(summary.neutral_count, summary.total_count)
           /\ PercentageSums[PercentagesOf(summary)] = Hundred

\* the percentages and their sums, rounded down to millionths
PercentageMillionths ==
    [f \in {Percentages[p] : p \in CountPairs}
            \cup {PercentageSums[t] : t \in PercentageTriples}
        |-> FloatMillionths(f)]

\* a float in millionths is within one millionth of num / den
NearQuotient(millionths, num, den) ==
    /\ millionths * den <= num * Unit
    /\ (millionths + 1) * den >= num * Unit

\* C16 amended: each percentage is the float (count / total_count) * 100,
\* which is 100 * count / total_count to within a millionth, and the three
\* add up to 100 to within a millionth, not always to 100.0 itself.
C16_SumNearHundred ==
    NonEmptySummarized
        => LET t == summary.total_count
           IN /\ NearQuotient(PercentageMillionths[summary.positive_percentage],
                              100 * summary.positive_count, t)
              /\ NearQuotient(PercentageMillionths[summary.negative_percentage],
                              100 * summary.negative_count, t)
              /\ NearQuotient(PercentageMillionths[summary.neutral_percentage],
                              100 * summary.neutral_count, t)
              /\ NearQuotient(
                   PercentageMillionths[PercentageSums[PercentagesOf(summary)]],
                   100, 1)

C16_Witness ==
    /\ NonEmptySummarized
    /\ summary.positive_count = 1
    /\ summary.negative_count = 1
    /\ summary.neutral_count = 1
    /\ PercentageSums[PercentagesOf(summary)] # Hundred
    /\ PercentageMillionths[PercentageSums[PercentagesOf(summary)]]
         = 100 * Unit - 1

\* how many results classify_sentiment labels with one of the given labels
Labelled(rs, ls) ==
    Cardinality({i \in 1..Len(rs) : classify_sentiment(rs[i].sentiment_score) \in ls})

\* C17: the summary's buckets agree with classify_sentiment for every score,
\* the boundaries 0.05 and -0.05 included: a result is counted positive iff
\* its label is Positive or Very Positive, negative iff it is Negative or
\* Very Negative, neutral iff it is Neutral.
C17_BucketsAgree ==
    NonEmptySummarized
        => /\ summary.positive_count
                = Labelled(results, {"Positive", "Very Positive"})
           /\ summary.negative_count
                = Labelled(results, {"Negative", "Very Negative"})
           /\ summary.neutral_count = Labelled(results, {"Neutral"})

ScoresOf(rs) == [i \in 1..Len(rs) |-> rs[i].sentiment_score]

ExampleScores == <<8 * Tenth, -9 * Tenth, 0, Tenth, -2 * Tenth>>

Raised(outcome) == outcome # NoValue /\ outcome.raises

\* C19: when exactly one of the two lexical models raises on a non-empty
\* normalized text, analyze still returns, with the values of the model that
\* raised replaced by 0; no exception reaches the caller.
C19_OneModelRaises ==
    (/\ a_pc \in {"returned", "raised"}
     /\ invoked # {}
     /\ Raised(tb_outcome) # Raised(vader_outcome))
        => /\ a_pc = "returned"
           /\ Raised(tb_outcome)
                => /\ result.textblob_score = 0
                   /\ result.subjectivity = 0
                   /\ result.vader_score = vader_outcome.scores.compound
           /\ Raised(vader_outcome)
                => /\ result.vader_score = 0
                   /\ result.textblob_score = tb_outcome.polarity

\* C30: when both lexical models raise on a non-empty normalized text,
\* analyze returns with sentiment_score 0, subjectivity 0 and confidence 1.0.
C30_BothModelsRaise ==
    (/\ a_pc \in {"returned", "raised"}
     /\ invoked # {}
     /\ Raised(tb_outcome)
     /\ Raised(vader_outcome))
        => /\ a_pc = "returned"
           /\ result.sentiment_score = 0
           /\ result.subjectivity = 0
           /\ result.confidence = Unit

C30_Witness ==
    /\ a_pc = "returned"
    /\ clean_text(text) # <<>>
    /\ invoked = {"textblob", "vader"}
    /\ Raised(tb_outcome)
    /\ Raised(vader_outcome)
    /\ result.confidence = Unit
    /\ result.vader_neutral = Unit

\* C20: in analyze_batch and get_overall_sentiment a failure while scoring
\* one text never keeps the others from being scored and returned.
C20_OthersStillScored ==
    b_pc \in {"returned", "raised"}
        => /\ b_pc = "returned"
           /\ scored = Len(texts)
           /\ b_op = "analyze_batch" => Len(results) = Len(texts)

(***************************************************************************)
(* FMPCollector: institutional and insider sentiment                       *)
(***************************************************************************)
\* q < t for a threshold t in millionths
Lt(q, t) == q.num < t * q.den

\* _make_request: the JSON list of the response, or None
FmpResponses(items, maxLen) ==
    {FetchFailed}
    \cup {[failed |-> FALSE, data |-> d] :
            d \in UNION {[1..n -> items] : n \in 0..maxLen}}

\* a holder record of the API: 'change' is a number of shares, or is missing
HolderRecords ==
    {[holder |-> "fund", change |-> c] : c \in {-1, 0, 1}}
        \cup {[holder |-> "fund"]}

\* ten holders, k of them with an increased and m with a decreased position
TenHolders(k, m) ==
    [i \in 1..10 |->
        [holder |-> "fund",
         change |-> IF i <= k THEN 1 ELSE IF i <= k + m THEN -1 ELSE 0]]

HolderResponses ==
    FmpResponses(HolderRecords, MaxHolders)
        \cup {[failed |-> FALSE, data |-> TenHolders(3, 0)],
              [failed |-> FALSE, data |-> TenHolders(4, 0)],
              [failed |-> FALSE, data |-> TenHolders(0, 3)],
              [failed |-> FALSE, data |-> TenHolders(1, 5)]}

\* get_institutional_holders: [] without data, else the records with the
\* ticker added
get_institutional_holders(response) ==
    IF response.failed \/ response.data = <<>> THEN <<>>
    ELSE [i \in 1..Len(response.data) |->
            [k \in DOMAIN response.data[i] \cup {"ticker"} |->
                IF k = "ticker" THEN "AAPL" ELSE response.data[i][k]]]

\* h.get('change', 0)
change_of(h) == IF "change" \in DOMAIN h THEN h.change ELSE 0

institutional_label_inclusive(q) ==
    IF ~Lt(q, 3 * Tenth) THEN "bullish"
    ELSE IF ~Gt(q, -3 * Tenth) THEN "bearish"
    ELSE "neutral"

\* if score > 0.3 / elif score < -0.3 / else
institutional_label(q) ==
    IF Gt(q, 3 * Tenth) THEN "bullish"
    ELSE IF Lt(q, -3 * Tenth) THEN "bearish"
    ELSE "neutral"

analyze_institutional_sentiment(hs) ==
    IF hs = <<>>
    THEN [sentiment |-> "unknown", score |-> Quotient(0, 1), holder_count |-> 0]
    ELSE LET increasing == Cardinality({i \in 1..Len(hs) : change_of(hs[i]) > 0})
             decreasing == Cardinality({i \in 1..Len(hs) : change_of(hs[i]) < 0})
             total == Len(hs)
             score_ == IF total > 0
                      THEN Quotient((increasing - decreasing) * Unit, total)
                      ELSE Quotient(0, 1)
         IN [sentiment |-> institutional_label(score_),
             score |-> score_,
             holder_count |-> total,
             increasing_positions |-> increasing,
             decreasing_positions |-> decreasing]

\* days: int = 90
DefaultDays == 90
DaysArguments == {1, DefaultDays}

\* trade['transactionDate']: a 'YYYY-MM-DD' string, as its day relative to
\* today, or a string strptime rejects
TradeDates ==
    {[parses |-> FALSE]}
        \cup {[parses |-> TRUE, day |-> d] : d \in {1, 0, -1, -2}}

Purchase == <<"P", "-", "P", "u", "r", "c", "h", "a", "s", "e">>
Sale == <<"S", "-", "S", "a", "l", "e">>
Award == <<"A", "-", "A", "w", "a", "r", "d">>
TradeTypes == {Purchase, Sale, Award}

\* a trade record of the API; either key may be missing
TradeRecords ==
    {[transactionDate |-> d, transactionType |-> t] :
        d \in TradeDates, t \in TradeTypes}
    \cup {[transactionType |-> t] : t \in TradeTypes}
    \cup {[transactionDate |-> d] : d \in TradeDates}

\* five trades of today, k of them purchases and the others sales
FiveTrades(k) ==
    [i \in 1..5 |->
        [transactionDate |-> [parses |-> TRUE, day |-> 0],
         transactionType |-> IF i <= k THEN Purchase ELSE Sale]]

TradeResponses ==
    FmpResponses(TradeRecords, MaxTrades)
        \cup {[failed |-> FALSE, data |-> FiveTrades(k)] : k \in {2, 3}}

\* get_insider_trades: [] without data, else the records
get_insider_trades(response) ==
    IF response.failed \/ response.data = <<>> THEN <<>> ELSE response.data

recent_always(trade, dy, tod) ==
    /\ "transactionDate" \in DOMAIN trade
    /\ trade.transactionDate.parses

\* the try block of the filter loop: a missing key or a string strptime
\* rejects raises and the trade is skipped; otherwise the trade is kept when
\* trade_date >= cutoff_date, with trade_date the midnight of its day and
\* cutoff_date = datetime.now() - relativedelta(days=days), in half days
recent(trade, dy, tod) ==
    /\ "transactionDate" \in DOMAIN trade
    /\ trade.transactionDate.parses
    /\ 2 * trade.transactionDate.day >= tod - 2 * dy

\* t.get('transactionType', '')
type_of(t) == IF "transactionType" \in DOMAIN t THEN t.transactionType ELSE <<>>

\* 'P' in ... / 'S' in ...
Contains(str, ch) == \E i \in 1..Len(str) : str[i] = ch

\* if score > 0.2 / elif score < -0.2 / else
insider_label(q) ==
    IF Gt(q, 2 * Tenth) THEN "bullish"
    ELSE IF Lt(q, -2 * Tenth) THEN "bearish"
    ELSE "neutral"

analyze_insider_sentiment(ts, dy, tod) ==
    LET kept(t) == recent(t, dy, tod)
        recent_trades == SelectSeq(ts, kept)
        buys == Cardinality({i \in 1..Len(recent_trades) :
                                Contains(type_of(recent_trades[i]), "P")})
        sells == Cardinality({i \in 1..Len(recent_trades) :
                                Contains(type_of(recent_trades[i]), "S")})
        total == buys + sells
        score_ == IF total > 0 THEN Quotient((buys - sells) * Unit, total)
                 ELSE Quotient(0, 1)
    IN IF ts = <<>>
       THEN [sentiment |-> "unknown", score |-> Quotient(0, 1), trade_count |-> 0]
       ELSE IF recent_trades = <<>>
       THEN [sentiment |-> "neutral", score |-> Quotient(0, 1), trade_count |-> 0]
       ELSE [sentiment |-> insider_label(score_),
             score |-> score_,
             trade_count |-> total,
             buys |-> buys,
             sells |-> sells]

FmpIdle ==
    /\ f_pc = "idle"
    /\ f_op = "none"
    /\ holders = <<>>
    /\ trades = <<>>
    /\ days = DefaultDays
    /\ time_of_day = 0
    /\ fmp_result = NoValue

FmpInit ==
    /\ f_pc = "start"
    /\ f_op = "none"
    /\ holders = <<>>
    /\ trades = <<>>
    /\ days \in DaysArguments
    /\ time_of_day \in {0, 1}
    /\ fmp_result = NoValue

AnalyzeInstitutionalSentiment ==
    /\ f_pc = "start"
    /\ \E response \in HolderResponses :
         LET hs == get_institutional_holders(response)
         IN /\ holders' = hs
            /\ fmp_result' = analyze_institutional_sentiment(hs)
    /\ f_pc' = "returned"
    /\ f_op' = "analyze_institutional_sentiment"
    /\ UNCHANGED <<trades, days, time_of_day, notFmp>>

AnalyzeInsiderSentiment ==
    /\ f_pc = "start"
    /\ \E response \in TradeResponses :
         LET ts == get_insider_trades(response)
         IN /\ trades' = ts
            /\ fmp_result' = analyze_insider_sentiment(ts, days, time_of_day)
    /\ f_pc' = "returned"
    /\ f_op' = "analyze_insider_sentiment"
    /\ UNCHANGED <<holders, days, time_of_day, notFmp>>

(***************************************************************************)
(* Claims about institutional and insider sentiment                        *)
(***************************************************************************)
InstitutionalReturned ==
    f_pc = "returned" /\ f_op = "analyze_institutional_sentiment"

InsiderReturned ==
    f_pc = "returned" /\ f_op = "analyze_insider_sentiment"

\* a score in [-1, 1]
InUnitRange(q) ==
    q.den > 0 /\ q.num <= Unit * q.den /\ q.num >= -Unit * q.den

\* bullish exactly above the threshold, bearish exactly below its negative,
\* neutral otherwise
LabelledAt(l, q, threshold) ==
    /\ l \in {"bullish", "bearish", "neutral"}
    /\ l = "bullish" <=> Gt(q, threshold)
    /\ l = "bearish" <=> Lt(q, -threshold)

\* C22: for a non-empty holder list the institutional score is (holders with
\* change > 0 minus holders with change < 0) / number of holders, lies in
\* [-1, 1], and is labelled bullish exactly when above 0.3, bearish exactly
\* when below -0.3, neutral otherwise; without holder data the result is
\* 'unknown' with score 0 and holder_count 0.
C22_InstitutionalScore ==
    InstitutionalReturned
        => LET up == Cardinality({i \in 1..Len(holders) :
                        "change" \in DOMAIN holders[i] /\ holders[i].change > 0})
               down == Cardinality({i \in 1..Len(holders) :
                        "change" \in DOMAIN holders[i] /\ holders[i].change < 0})
               q == fmp_result.score
           IN IF Len(holders) > 0
              THEN /\ q.num * Len(holders) = (up - down) * Unit * q.den
                   /\ InUnitRange(q)
                   /\ LabelledAt(fmp_result.sentiment, q, 3 * Tenth)
                   /\ fmp_result.holder_count = Len(holders)
              ELSE /\ fmp_result.sentiment = "unknown"
                   /\ q.num = 0
                   /\ fmp_result.holder_count = 0

C22_Witness ==
    /\ InstitutionalReturned
    /\ Len(holders) = 10
    /\ fmp_result.increasing_positions = 3
    /\ fmp_result.decreasing_positions = 0
    /\ fmp_result.sentiment = "neutral"

\* the trade's date parses and is not before the cutoff
InWindow(t) ==
    /\ "transactionDate" \in DOMAIN t
    /\ t.transactionDate.parses
    /\ 2 * t.transactionDate.day + 2 * days >= time_of_day

HasLetter(t, ch) ==
    "transactionType" \in DOMAIN t /\ Contains(t.transactionType, ch)

CleanAlphabet == {" ", "a", "@", "#"}

\* texts in which a URL or a mention is interrupted by a mention or a '#'
SplitTexts ==
    { <<"h", "#", "t", "t", "p", ":", "/", "/", "x">>,
      <<"h", "t", "@", "a", "t", "p", ":", "/", "/", "x">>,
      <<"w", "#", "w", "w", ".", "a">>,
      <<"w", "w", "w">> }

CleanTexts ==
    UNION {[1..n -> CleanAlphabet] : n \in 0..MaxCleanLen}
        \cup NoiseTexts \cup PlainTexts \cup SplitTexts

CleanIdle ==
    /\ k_pc = "idle"
    /\ raw_text = <<>>
    /\ cleaned = <<>>
    /\ recleaned = <<>>

CleanInit ==
    /\ k_pc = "start"
    /\ raw_text \in CleanTexts
    /\ cleaned = <<>>
    /\ recleaned = <<>>

CleanText ==
    /\ k_pc = "start"
    /\ cleaned' = clean_text(raw_text)
    /\ k_pc' = "cleaned"
    /\ UNCHANGED <<raw_text, recleaned, notClean>>

CleanTextAgain ==
    /\ k_pc = "cleaned"
    /\ recleaned' = clean_text(cleaned)
    /\ k_pc' = "recleaned"
    /\ UNCHANGED <<raw_text, cleaned, notClean>>

(***************************************************************************)
(* Claims about clean_text                                                 *)
(***************************************************************************)
\* s holds the characters of lit from position i on, and a non-space
\* character after them
HasAt(s, i, lit) ==
    /\ i + Len(lit) <= Len(s)
    /\ \A j \in 1..Len(lit) : s[i + j - 1] = lit[j]
    /\ ~IsSpace(s[i + Len(lit)])

\* C26: the output of clean_text holds no URL-like substring (http or www
\* followed by a non-space character), no @mention ('@' followed by a word character), no '#',
\* no leading or trailing whitespace and no two whitespace characters in a
\* row; so clean_text of its own output is that output.
C26_CleanOutput ==
    /\ k_pc \in {"cleaned", "recleaned"}
         => /\ \A i \in 1..Len(cleaned) :
                 /\ ~HasAt(cleaned, i, <<"h", "t", "t", "p">>)
                 /\ ~HasAt(cleaned, i, <<"w", "w", "w">>)
                 /\ ~(cleaned[i] = "@" /\ i < Len(cleaned) /\ IsWord(cleaned[i + 1]))
                 /\ cleaned[i] # "#"
                 /\ ~(IsSpace(cleaned[i]) /\ i < Len(cleaned) /\ IsSpace(cleaned[i + 1]))
            /\ cleaned # <<>>
                 => ~IsSpace(cleaned[1]) /\ ~IsSpace(cleaned[Len(cleaned)])
    /\ k_pc = "recleaned" => recleaned = cleaned

(***************************************************************************)
(* Claims about what the calls leave alone                                 *)
(***************************************************************************)
\* C21: analyze_batch and get_overall_sentiment leave the caller's list as it
\* was: after either returns (or raises) the list and each of its texts equal
\* what they were before the call.
C21_InputUnchanged ==
    [][b_pc = "start" /\ b_pc' # "start"
         => /\ Len(texts') = Len(texts)
            /\ \A i \in 1..Len(texts) : texts'[i] = texts[i]]_vars

C21_Witness ==
    /\ b_pc = "returned"
    /\ b_op = "get_overall_sentiment"
    /\ Len(texts) = MaxBatch
    /\ summary.total_count = MaxBatch

(***************************************************************************)
(* DatabaseManager: the tweets table                                       *)
(***************************************************************************)
TweetIds == {"1", "2"}
Tickers == {"AAPL", "MSFT"}

\* created_at is modelled by its distance from 'now', in days
CreatedAt == {0, 8}

SummaryDays == {7}

\* tweets as the collector hands them over, all of one ticker, and one that
\* lacks its 'text'
TweetData ==
    [id : TweetIds, ticker : {"AAPL"}, text : {"a", "b"}, created_at : CreatedAt]
        \cup {[id |-> "1", ticker |-> "AAPL", created_at |-> 0]}

SentimentData == [sentiment_score : {5 * Hundredth, 9 * Tenth}]

\* the lists insert_tweets_batch is given
TweetLists ==
    UNION {[1..n -> [id : TweetIds, ticker : {"AAPL"}, text : {"a"},
                     created_at : {0}]
                        \X [sentiment_score : {9 * Tenth}]] :
           n \in 0..MaxInsertBatch}

\* INSERT OR IGNORE: a row whose tweet_id is in the table already is dropped
\* without an error
InsertOrIgnore(table, row) ==
    IF \E i \in 1..Len(table) : table[i].tweet_id = row.tweet_id
    THEN table
    ELSE Append(table, row)

\* a missing key raises KeyError, which the last handler turns into False;
\* otherwise the statement is executed and True is returned
insert_tweet(table, tweet_data, sentiment_data) ==
    IF ~({"id", "text", "created_at"} \subseteq DOMAIN tweet_data)
    THEN [table |-> table, returns |-> FALSE]
    ELSE [table |-> InsertOrIgnore(table,
                        [tweet_id |-> tweet_data.id,
                         ticker |-> tweet_data.ticker,
                         text |-> tweet_data.text,
                         created_at |-> tweet_data.created_at,
                         sentiment_score |-> sentiment_data.sentiment_score]),
          returns |-> TRUE]

RECURSIVE insert_tweets_from(_, _, _, _)
insert_tweets_from(table, tweets_with_sentiment, i, count) ==
    IF i > Len(tweets_with_sentiment)
    THEN [table |-> table, returns |-> count]
    ELSE LET one == insert_tweet(table, tweets_with_sentiment[i][1],
                                 tweets_with_sentiment[i][2])
         IN  insert_tweets_from(one.table, tweets_with_sentiment, i + 1,
                                IF one.returns THEN count + 1 ELSE count)

insert_tweets_batch(table, tweets_with_sentiment) ==
    insert_tweets_from(table, tweets_with_sentiment, 1, 0)

\* the rows the WHERE clause selects
Selected(table, ticker, days_) ==
    {i \in 1..Len(table) :
        table[i].ticker = ticker /\ table[i].created_at <= days_}

\* the empty dictionary
NoSummary == [key \in {} |-> 0]

\* over no rows COUNT is 0 and every SUM is NULL; None / 1 raises TypeError,
\* which the handler turns into the empty dictionary
get_sentiment_summary(table, ticker, days_) ==
    LET rows == Selected(table, ticker, days_)
        total_tweets == Cardinality(rows)
        score_(i) == table[i].sentiment_score
        positive_count_ == Cardinality({i \in rows : score_(i) > 5 * Hundredth})
        negative_count_ ==
            Cardinality({i \in rows : score_(i) < -(5 * Hundredth)})
        neutral_count_ ==
            Cardinality({i \in rows : /\ score_(i) >= -(5 * Hundredth)
                                      /\ score_(i) <= 5 * Hundredth})
    IN  IF total_tweets = 0
        THEN NoSummary
        ELSE [total_tweets |-> total_tweets,
              positive_count |-> positive_count_,
              negative_count |-> negative_count_,
              neutral_count |-> neutral_count_,
              positive_percentage |-> Percentages[<<positive_count_, total_tweets>>],
              negative_percentage |-> Percentages[<<negative_count_, total_tweets>>],
              neutral_percentage |-> Percentages[<<neutral_count_, total_tweets>>]]

DbIdle ==
    /\ d_op = "idle"
    /\ db_calls = 0
    /\ tweets = <<>>
    /\ added = 0
    /\ inserted = FALSE
    /\ inserted_count = 0
    /\ asked = ""
    /\ db_summary = NoSummary

\* after init_database: the table exists and is empty
DbInit ==
    /\ d_op = "none"
    /\ db_calls = 0
    /\ tweets = <<>>
    /\ added = 0
    /\ inserted = FALSE
    /\ inserted_count = 0
    /\ asked = ""
    /\ db_summary = NoSummary

InsertTweet ==
    /\ d_op # "idle"
    /\ db_calls < MaxDbCalls
    /\ \E tweet_data \in TweetData, sentiment_data \in SentimentData :
          LET call == insert_tweet(tweets, tweet_data, sentiment_data)
          IN  /\ tweets' = call.table
              /\ inserted' = call.returns
              /\ added' = Len(call.table) - Len(tweets)
    /\ d_op' = "insert_tweet"
    /\ db_calls' = db_calls + 1
    /\ inserted_count' = 0
    /\ asked' = ""
    /\ db_summary' = NoSummary
    /\ UNCHANGED notDb

InsertTweetsBatch ==
    /\ d_op # "idle"
    /\ db_calls < MaxDbCalls
    /\ \E tweets_with_sentiment \in TweetLists :
          LET call == insert_tweets_batch(tweets, tweets_with_sentiment)
          IN  /\ tweets' = call.table
              /\ inserted_count' = call.returns
              /\ added' = Len(call.table) - Len(tweets)
    /\ d_op' = "insert_tweets_batch"
    /\ db_calls' = db_calls + 1
    /\ inserted' = FALSE
    /\ asked' = ""
    /\ db_summary' = NoSummary
    /\ UNCHANGED notDb

GetSentimentSummary ==
    /\ d_op # "idle"
    /\ db_calls < MaxDbCalls
    /\ \E ticker \in Tickers, days_ \in SummaryDays :
          /\ db_summary' = get_sentiment_summary(tweets, ticker, days_)
          /\ asked' = ticker
    /\ d_op' = "get_sentiment_summary"
    /\ db_calls' = db_calls + 1
    /\ added' = 0
    /\ inserted' = FALSE
    /\ inserted_count' = 0
    /\ UNCHANGED <<tweets, notDb>>

(***************************************************************************)
(* Claims about the tweets table                                           *)
(***************************************************************************)
\* C27: insert_tweet returns True only when it added a row, a tweet whose
\* tweet_id is stored already returns False and changes no row, no tweet_id is
\* stored twice, and insert_tweets_batch returns the number of rows it added.
C27_InsertReportsNewRows ==
    /\ d_op = "insert_tweet" => (inserted <=> added = 1)
    /\ d_op = "insert_tweets_batch" => inserted_count = added
    /\ \A i, j \in 1..Len(tweets) :
          tweets[i].tweet_id = tweets[j].tweet_id => i = j

\* C29: get_sentiment_summary for a ticker with no tweets in the window
\* returns total_tweets = 0 and the three percentages 0.
C29_EmptyWindowSummary ==
    d_op = "get_sentiment_summary"
        /\ (\A days_ \in SummaryDays : Selected(tweets, asked, days_) = {})
        => /\ DOMAIN db_summary # {}
           /\ db_summary.total_tweets = 0
           /\ db_summary.positive_percentage = FloatZero
           /\ db_summary.negative_percentage = FloatZero
           /\ db_summary.neutral_percentage = FloatZero

(***************************************************************************)
(* The collectors' rate limiter: _rate_limit and _make_request             *)
(***************************************************************************)
\* times are in milliseconds
Second == 1000

\* Config.SEC_RATE_LIMIT, requests per second
SEC_RATE_LIMIT == 10

\* 1.0 / Config.SEC_RATE_LIMIT
SecMinRequestInterval == Second \div SEC_RATE_LIMIT

\* 0.5
FmpMinRequestInterval == 500

Collectors == {"SECEdgarCollector", "FMPCollector"}

MinRequestInterval(c) ==
    IF c = "SECEdgarCollector"
    THEN SecMinRequestInterval
    ELSE FmpMinRequestInterval

\* time.time() when the collector is constructed
StartTimes == {Second}

\* the time that passes between two calls
Pauses == {0, 50, 450, 600}

\* the time that passes until a request is answered or has failed
AnswerTimes == {0, 50}

\* how much longer than asked time.sleep takes
Oversleeps == {0, 10}

sleep_time_unlimited(time_since_last_request, interval) == 0

\* the time _rate_limit sleeps for
sleep_time(time_since_last_request, interval) ==
    IF time_since_last_request < interval
    THEN interval - time_since_last_request
    ELSE 0

\* time.time() after _rate_limit's sleep, which began at current_time
rate_limit(current_time, last, interval, oversleep) ==
    LET sleeps == sleep_time(current_time - last, interval)
    IN  [slept |-> sleeps,
         now |-> IF sleeps > 0
                 THEN current_time + sleeps + oversleep
                 ELSE current_time]

LimiterIdle ==
    /\ l_pc = "idle"
    /\ collector = "none"
    /\ min_request_interval = 0
    /\ last_request_time = 0
    /\ clock = 0
    /\ request_times = <<>>
    /\ slept = 0
    /\ returned = "none"

LimiterInit ==
    /\ l_pc = "ready"
    /\ collector \in Collectors
    /\ min_request_interval = MinRequestInterval(collector)
    /\ last_request_time = 0
    /\ clock \in StartTimes
    /\ request_times = <<>>
    /\ slept = 0
    /\ returned = "none"

\* one call of _make_request: the limiter, then the request, which is issued
\* as _rate_limit returns and either is answered or fails
MakeRequest ==
    /\ l_pc = "ready"
    /\ Len(request_times) < MaxRequests
    /\ \E pause \in Pauses, oversleep \in Oversleeps, answer \in AnswerTimes :
          LET limited == rate_limit(clock + pause, last_request_time,
                                    min_request_interval, oversleep)
          IN  /\ slept' = limited.slept
              /\ last_request_time' = limited.now
              /\ request_times' = Append(request_times, limited.now)
              /\ clock' = limited.now + answer
    /\ returned' \in {"response", "None"}
    /\ UNCHANGED <<l_pc, collector, min_request_interval, notLimiter>>

(***************************************************************************)
(* Claims about the rate limiter                                           *)
(***************************************************************************)
\* C28: the requests of two consecutive _make_request calls of one collector
\* are issued at least min_request_interval apart (100 ms for SEC EDGAR,
\* 500 ms for FMP), and last_request_time never decreases.
C28_RequestsSpaced ==
    /\ [](l_pc = "ready"
            => /\ min_request_interval =
                    (IF collector = "SECEdgarCollector" THEN 100 ELSE 500)
               /\ \A i \in 1..Len(request_times) - 1 :
                     request_times[i + 1] - request_times[i]
                         >= min_request_interval)
    /\ [][last_request_time' >= last_request_time]_vars

\* a request that had to wait: it was asked for 50 ms after the one before
C28_Witness ==
    /\ l_pc = "ready"
    /\ Len(request_times) >= 2
    /\ slept = min_request_interval - 50
    /\ last_request_time = request_times[Len(request_times)]

(***************************************************************************)
(* Specifications                                                          *)
(***************************************************************************)
InitAnalyze ==
    /\ AnalyzerInit /\ ClassifierIdle /\ MarketIdle /\ BatchIdle
    /\ FmpIdle /\ CleanIdle /\ DbIdle /\ LimiterIdle
SpecAnalyze == InitAnalyze /\ [][Analyze]_vars

InitClassify ==
    /\ AnalyzerIdle /\ ClassifierInit /\ MarketIdle /\ BatchIdle
    /\ FmpIdle /\ CleanIdle /\ DbIdle /\ LimiterIdle
NextClassify == ClassifySentiment \/ VisualizerClassifySentiment
SpecClassify == InitClassify /\ [][NextClassify]_vars

InitMarket ==
    /\ AnalyzerIdle /\ ClassifierIdle /\ MarketInit /\ BatchIdle
    /\ FmpIdle /\ CleanIdle /\ DbIdle /\ LimiterIdle
SpecMarket == InitMarket /\ [][GetOverallMarketSentiment]_vars

InitBatch ==
    /\ AnalyzerIdle /\ ClassifierIdle /\ MarketIdle /\ BatchInit
    /\ FmpIdle /\ CleanIdle /\ DbIdle /\ LimiterIdle
NextBatch == AnalyzeBatch \/ GetOverallSentiment
SpecBatch == InitBatch /\ [][NextBatch]_vars

InitFmp ==
    /\ AnalyzerIdle /\ ClassifierIdle /\ MarketIdle /\ BatchIdle
    /\ FmpInit /\ CleanIdle /\ DbIdle /\ LimiterIdle
NextFmp == AnalyzeInstitutionalSentiment \/ AnalyzeInsiderSentiment
SpecFmp == InitFmp /\ [][NextFmp]_vars

InitClean ==
    /\ AnalyzerIdle /\ ClassifierIdle /\ MarketIdle /\ BatchIdle
    /\ FmpIdle /\ CleanInit /\ DbIdle /\ LimiterIdle
NextClean == CleanText \/ CleanTextAgain
SpecClean == InitClean /\ [][NextClean]_vars

InitDb ==
    /\ AnalyzerIdle /\ ClassifierIdle /\ MarketIdle /\ BatchIdle
    /\ FmpIdle /\ CleanIdle /\ DbInit /\ LimiterIdle
NextDb == InsertTweet \/ InsertTweetsBatch \/ GetSentimentSummary
SpecDb == InitDb /\ [][NextDb]_vars

InitLimiter ==
    /\ AnalyzerIdle /\ ClassifierIdle /\ MarketIdle /\ BatchIdle
    /\ FmpIdle /\ CleanIdle /\ DbIdle /\ LimiterInit
SpecLimiter == InitLimiter /\ [][MakeRequest]_vars

====
